---- MODULE Spec2Model ----
(***************************************************************************)
(* The snake game of src/main.py as a state machine.                       *)
(*                                                                         *)
(* The state is the fields of Game (paused, game_over, running), of Snake  *)
(* (segments, next_direction), of Food (pos) and of Score (value).  One   *)
(* step is one iteration of the event loop of Game.update: the handling of *)
(* one event of the frame's list, in list order.  The list itself is an    *)
(* input; its events are drawn one by one as the loop reaches them, and    *)
(* EndFrame is the loop running out of events.                             *)
(***************************************************************************)
EXTENDS Integers, Sequences, FiniteSets

VARIABLES
    segments,        \* Snake.segments: head first, each [pos, direction]
    next_direction,  \* Snake.next_direction: the buffered direction
    food,            \* Food.pos
    score,           \* Score.value
    paused,          \* Game.paused
    game_over,       \* Game.game_over
    running,         \* GameLoop.running: FALSE once QUIT was handled
    moved            \* history: an UPDATE event of the current frame has
                     \* moved the snake (move_snake passed its guard)

vars == <<segments, next_direction, food, score, paused, game_over, running, moved>>

game == <<segments, next_direction, food, score, paused, game_over>>

(***************************************************************************)
(* Bounds.  World.size is 25 x 18 in the source; the model keeps the rules *)
(* and scales the grid down.  MaxScore caps the number of apples eaten, so *)
(* that the snake never fills the grid (random.choice needs a free cell).  *)
(***************************************************************************)
Width == 4

Height == 3

MaxScore == 2

(***************************************************************************)
(* pygskin.direction.Direction: the four directions, their unit vectors in *)
(* screen coordinates (y grows downwards) and their axes.                  *)
(***************************************************************************)
Direction == {"UP", "DOWN", "LEFT", "RIGHT"}

vector(d) ==
    CASE d = "UP"    -> <<0, -1>>
      [] d = "DOWN"  -> <<0, 1>>
      [] d = "LEFT"  -> <<-1, 0>>
      [] d = "RIGHT" -> <<1, 0>>

axis(d) == IF d \in {"LEFT", "RIGHT"} THEN "HORIZONTAL" ELSE "VERTICAL"

\* pygame.Vector2 addition and subtraction
Add(p, v) == <<p[1] + v[1], p[2] + v[2]>>

Sub(p, v) == <<p[1] - v[1], p[2] - v[2]>>

Scale(v, i) == <<v[1] * i, v[2] * i>>

(***************************************************************************)
(* Keys.  K_SPACE stands for any key that is neither a direction key nor   *)
(* K_p.                                                                    *)
(***************************************************************************)
Keys == {"K_UP", "K_DOWN", "K_LEFT", "K_RIGHT", "K_p", "K_SPACE"}

\* DIRECTION_KEYS.get(key): the direction of a direction key, else "None"
DIRECTION_KEYS(key) ==
    CASE key = "K_UP"    -> "UP"
      [] key = "K_DOWN"  -> "DOWN"
      [] key = "K_LEFT"  -> "LEFT"
      [] key = "K_RIGHT" -> "RIGHT"
      [] OTHER           -> "None"

(***************************************************************************)
(* Segment and Snake                                                       *)
(***************************************************************************)
Segment(pos, direction) == [pos |-> pos, direction |-> direction]

project(segment) ==
    Segment(Add(segment.pos, vector(segment.direction)), segment.direction)

\* Snake.reset with pos = None: three segments from the origin to the left
InitialLength == 3

\* mutant: the body is laid out to the right of the head
Snake_reset_rightwards ==
    [i \in 1..InitialLength |->
        Segment(Add(<<0, 0>>, Scale(vector("RIGHT"), i - 1)), "RIGHT")]

Snake_reset ==
    [i \in 1..InitialLength |->
        Segment(Sub(<<0, 0>>, Scale(vector("RIGHT"), i - 1)), "RIGHT")]

head(segs) == segs[1]

occupied(segs) == {segs[i].pos : i \in DOMAIN segs}

\* mutant: the buffered direction is not applied, the head keeps its facing
grow_facing(segs, nd) ==
    <<project(head(segs))>> \o segs

\* mutant: the new head is projected before the buffered direction is applied
grow_stale(segs, nd) ==
    LET h == [head(segs) EXCEPT !.direction = nd]
    IN  <<Segment(Add(head(segs).pos, vector(head(segs).direction)), nd), h>>
            \o Tail(segs)

grow(segs, nd) ==
    LET h == [head(segs) EXCEPT !.direction = nd]
    IN  <<project(h), h>> \o Tail(segs)

\* mutant: the tail is not removed
shrink_none(segs) == segs

\* mutant: the segment behind the head is removed instead of the tail
shrink_front(segs) == <<head(segs)>> \o Tail(Tail(segs))

shrink(segs) == SubSeq(segs, 1, Len(segs) - 1)

\* mutant: the turn is judged against the buffered direction
turn_vs_buffer(segs, nd, direction) ==
    IF axis(direction) # axis(nd) THEN direction ELSE nd

\* mutant: no axis filter
turn_always(segs, nd, direction) == direction

turn(segs, nd, direction) ==
    IF axis(direction) # axis(head(segs).direction) THEN direction ELSE nd

\* mutant: no self-collision is ever reported
hit_self_never(segs) == FALSE

\* mutant: the tail, which this tick's shrink would remove, is not counted
hit_self_lenient(segs) ==
    \E i \in 2..(Len(segs) - 1) : segs[i].pos = head(segs).pos

hit_self(segs) == \E i \in 2..Len(segs) : segs[i].pos = head(segs).pos

(***************************************************************************)
(* Snake.draw: the sprite names it looks up, tail first.  A name           *)
(* f"{previous} {name}" is kept as the pair <<previous, name>>.            *)
(***************************************************************************)
\* the keys of SPRITESHEET's name_map that name snake sprites (APPLE is the
\* food's)
name_map ==
    {<<"HEAD", "UP">>, <<"HEAD", "DOWN">>, <<"HEAD", "LEFT">>, <<"HEAD", "RIGHT">>,
     <<"TAIL", "UP">>, <<"TAIL", "DOWN">>, <<"TAIL", "LEFT">>, <<"TAIL", "RIGHT">>,
     <<"UP", "LEFT">>, <<"UP", "RIGHT">>, <<"DOWN", "LEFT">>, <<"DOWN", "RIGHT">>,
     <<"LEFT", "UP">>, <<"LEFT", "DOWN">>, <<"RIGHT", "UP">>, <<"RIGHT", "DOWN">>,
     <<"UP", "UP">>, <<"DOWN", "DOWN">>, <<"LEFT", "LEFT">>, <<"RIGHT", "RIGHT">>}

\* the loop over a list of segments: the names looked up, and the final
\* value of previous
RECURSIVE draw_loop(_, _, _)
draw_loop(rest, previous, out) ==
    IF rest = <<>>
    THEN [names |-> out, previous |-> previous]
    ELSE draw_loop(Tail(rest), head(rest).direction,
                   Append(out, <<previous, head(rest).direction>>))

reversed(seq) == [i \in 1..Len(seq) |-> seq[Len(seq) + 1 - i]]

\* mutant: the body is walked from the head's side, not reversed
draw_unreversed(segs) ==
    LET body == draw_loop(Tail(segs), "TAIL", <<>>)
    IN  Append(body.names, <<"HEAD", body.previous>>)

draw(segs) ==
    LET body == draw_loop(reversed(Tail(segs)), "TAIL", <<>>)
    IN  Append(body.names, <<"HEAD", body.previous>>)

(***************************************************************************)
(* World                                                                   *)
(***************************************************************************)
cells == {<<x, y>> : x \in 0..(Width - 1), y \in 0..(Height - 1)}

\* mutant: the right and bottom edges are taken as inside
contains_inclusive(pos) ==
    /\ 0 <= pos[1] /\ pos[1] <= Width
    /\ 0 <= pos[2] /\ pos[2] <= Height

\* World.__contains__: Rect((0, 0), size).collidepoint(pos)
contains(pos) ==
    /\ 0 <= pos[1] /\ pos[1] < Width
    /\ 0 <= pos[2] /\ pos[2] < Height

\* mutant: the occupied cells are not excluded
random_pos_any(occ) == cells

\* World.random_pos: the cells random.choice can return
random_pos(occ) == cells \ occ

(***************************************************************************)
(* Score                                                                   *)
(***************************************************************************)
set(value) == value

\* mutant: the increment is lost
increment_lost(value) == set(value)

increment(value) == set(value + 1)

(***************************************************************************)
(* Game                                                                    *)
(***************************************************************************)
\* mutant: the reset leaves the game unpaused
Game_reset_unpaused ==
    /\ score' = set(0)
    /\ segments' = Snake_reset
    /\ next_direction' = "RIGHT"
    /\ food' \in random_pos(occupied(Snake_reset))
    /\ paused' = FALSE
    /\ game_over' = FALSE

\* Game.reset
Game_reset ==
    /\ score' = set(0)
    /\ segments' = Snake_reset
    /\ next_direction' = "RIGHT"
    /\ food' \in random_pos(occupied(Snake_reset))
    /\ paused' = TRUE
    /\ game_over' = FALSE

\* mutant: the guard tests the pause flag alone
blocked_paused_only(p, g) == p

\* the guard of Game.move_snake
blocked(p, g) == p \/ g

\* mutant: dying also pauses
snake_die_pausing ==
    /\ game_over' = TRUE
    /\ paused' = TRUE

\* snake.die(): the subscriber of Game.setup sets game_over
snake_die ==
    /\ game_over' = TRUE
    /\ UNCHANGED paused

\* mutant: score.increment is subscribed twice
snake_eat_double == score' = increment(increment(score))

\* snake.eat(): the subscriber of Game.setup is score.increment
snake_eat == score' = increment(score)

\* Game.move_snake
move_snake ==
    IF blocked(paused, game_over)
    THEN UNCHANGED game
    ELSE LET grown == grow(segments, next_direction)
         IN  IF hit_self(grown) \/ ~contains(head(grown).pos)
             THEN /\ segments' = grown
                  /\ snake_die
                  /\ UNCHANGED <<next_direction, food, score>>
             ELSE IF head(grown).pos = food
             THEN /\ score < MaxScore
                  /\ segments' = grown
                  /\ snake_eat
                  /\ food' \in random_pos(occupied(grown) \cup {food})
                  /\ UNCHANGED <<next_direction, paused, game_over>>
             ELSE /\ segments' = shrink(grown)
                  /\ UNCHANGED <<next_direction, food, score, paused, game_over>>

\* mutant: the direction keys are not filtered by the pause flag
KeyDown_unfiltered(key) ==
    /\ running
    /\ IF game_over
       THEN /\ Game_reset
            /\ moved' = FALSE
       ELSE /\ paused' = IF key = "K_p" THEN ~paused ELSE paused
            /\ next_direction' =
                   IF DIRECTION_KEYS(key) # "None"
                   THEN turn(segments, next_direction, DIRECTION_KEYS(key))
                   ELSE next_direction
            /\ UNCHANGED <<segments, food, score, game_over, moved>>
    /\ UNCHANGED running

\* Game.update, event.type == KEYDOWN
KeyDown(key) ==
    /\ running
    /\ IF game_over
       THEN \* return self.reset(): the rest of the frame's list is dropped
            /\ Game_reset
            /\ moved' = FALSE
       ELSE /\ paused' = IF key = "K_p" THEN ~paused ELSE paused
            /\ next_direction' =
                   IF ~paused' /\ DIRECTION_KEYS(key) # "None"
                   THEN turn(segments, next_direction, DIRECTION_KEYS(key))
                   ELSE next_direction
            /\ UNCHANGED <<segments, food, score, game_over, moved>>
    /\ UNCHANGED running

\* Game.update, event.type == QUIT
Quit ==
    /\ running
    /\ running' = FALSE
    /\ moved' = FALSE
    /\ UNCHANGED game

\* Game.update, event.type == UPDATE
Tick ==
    /\ running
    /\ move_snake
    /\ moved' = (moved \/ ~blocked(paused, game_over))
    /\ UNCHANGED running

\* Game.update, an event of any other type
OtherEvent ==
    /\ running
    /\ UNCHANGED vars

\* Game.update returns at the end of the frame's list
EndFrame ==
    /\ running
    /\ moved' = FALSE
    /\ UNCHANGED <<game, running>>

\* the state after Game.setup
Init ==
    /\ score = set(0)
    /\ segments = Snake_reset
    /\ next_direction = "RIGHT"
    /\ food \in random_pos(occupied(Snake_reset))
    /\ paused = TRUE
    /\ game_over = FALSE
    /\ running = TRUE
    /\ moved = FALSE

Next ==
    \/ \E key \in Keys : KeyDown(key)
    \/ Quit
    \/ Tick
    \/ OtherEvent
    \/ EndFrame

Spec == Init /\ [][Next]_vars

(***************************************************************************)
(* Notions the properties are stated in                                    *)
(***************************************************************************)
Running == ~paused /\ ~game_over

\* the position a tick gives the new head: the old head's position plus the
\* buffered direction's unit vector
NewHead == Add(segments[1].pos, vector(next_direction))

OutOfGrid(pos) ==
    pos[1] < 0 \/ pos[2] < 0 \/ pos[1] >= Width \/ pos[2] >= Height

OnSnake(pos) == \E i \in 1..Len(segments) : segments[i].pos = pos

\* a tick on which the new head hits a wall or the snake
Collision == OutOfGrid(NewHead) \/ OnSnake(NewHead)

KeyPress == \E key \in Keys : KeyDown(key)

DirectionKey == {"K_UP", "K_DOWN", "K_LEFT", "K_RIGHT"}

Opposite(d) ==
    CASE d = "UP"    -> "DOWN"
      [] d = "DOWN"  -> "UP"
      [] d = "LEFT"  -> "RIGHT"
      [] d = "RIGHT" -> "LEFT"

(***************************************************************************)
(* C1.  As stated: on every tick taken while Running on which the new head *)
(* does not land on the food cell, the number of segments is the same      *)
(* after the tick as before it.                                            *)
(***************************************************************************)
C1_Original ==
    [][Tick /\ Running /\ NewHead # food
           => Len(segments') = Len(segments)]_vars

(***************************************************************************)
(* C1, amended.  On every tick taken while Running on which the new head   *)
(* neither lands on the food cell nor collides with a wall or the snake,   *)
(* the number of segments is unchanged; on a colliding tick it grows by    *)
(* one, because the new head is inserted and the tail is not removed.      *)
(***************************************************************************)
C1_LengthKept ==
    [][Tick /\ Running /\ NewHead # food
           => Len(segments') = IF Collision THEN Len(segments) + 1
                                            ELSE Len(segments)]_vars

\* an ordinary tick of this frame has moved the three-segment snake
C1_Witness ==
    /\ moved /\ Running /\ score = 0
    /\ Len(segments) = 3
    /\ segments[1].pos # <<0, 0>>

(***************************************************************************)
(* C2.  On every tick taken while Running on which the new head lands on   *)
(* the food cell, the snake has one more segment after the tick, the score *)
(* is one higher, and the game stays Running.                              *)
(***************************************************************************)
C2_Eat ==
    [][Tick /\ Running /\ NewHead = food
           => /\ Len(segments') = Len(segments) + 1
              /\ score' = score + 1
              /\ ~paused' /\ ~game_over']_vars

\* a tick of this frame has eaten the first apple
C2_Witness ==
    /\ moved /\ Running
    /\ score = 1
    /\ Len(segments) = 4

(***************************************************************************)
(* C3.  In every reachable state the food cell is a cell of the grid and   *)
(* is not the position of any snake segment.                               *)
(***************************************************************************)
C3_FoodFree ==
    /\ food[1] \in 0..(Width - 1)
    /\ food[2] \in 0..(Height - 1)
    /\ \A i \in 1..Len(segments) : segments[i].pos # food

\* the food has been replaced after the last apple the bound allows, with
\* the whole snake on the grid
C3_Witness ==
    /\ score = MaxScore
    /\ ~game_over
    /\ \A i \in 1..Len(segments) : ~OutOfGrid(segments[i].pos)

(***************************************************************************)
(* C4.  A tick taken while Running ends the game if and only if the new    *)
(* head is outside the grid or on another segment of the grown snake; in   *)
(* every other case the game is still Running after the tick.              *)
(***************************************************************************)
C4_GameOverIff ==
    [][Tick /\ Running
           => /\ game_over' <=> (OutOfGrid(NewHead) \/ OnSnake(NewHead))
              /\ ~paused']_vars

\* the game has ended with the head inside the grid: a self-collision
C4_Witness ==
    /\ game_over
    /\ ~OutOfGrid(segments[1].pos)

(***************************************************************************)
(* C5.  As stated: a key press handled in GameOver respawns the snake,     *)
(* sets the score to 0 and leaves the game Running, not paused.            *)
(***************************************************************************)
C5_Original ==
    [][KeyPress /\ game_over
           => /\ score' = 0
              /\ Len(segments') = 3
              /\ ~game_over'
              /\ ~paused']_vars

(***************************************************************************)
(* C5, amended.  A key press handled in GameOver respawns the snake (three *)
(* segments from the origin, buffered direction RIGHT), sets the score to  *)
(* 0 and leaves the game Paused: game_over is false and paused is true.    *)
(***************************************************************************)
C5_ResetPaused ==
    [][KeyPress /\ game_over
           => /\ score' = 0
              /\ Len(segments') = 3
              /\ segments'[1].pos = <<0, 0>>
              /\ next_direction' = "RIGHT"
              /\ ~game_over'
              /\ paused']_vars

\* a round that scored has ended: the state a key press resets
C5_Witness ==
    /\ game_over /\ running
    /\ score > 0

(***************************************************************************)
(* C6.  As stated: in every reachable state in which game_over is true the *)
(* paused flag is true.                                                    *)
(***************************************************************************)
C6_Original == game_over => paused

(***************************************************************************)
(* C6, amended.  The tick that ends the round leaves the paused flag as it *)
(* is: in every reachable state in which game_over is true the paused flag *)
(* is false.                                                               *)
(***************************************************************************)
C6_OverNotPaused == game_over => ~paused

\* a round has ended against a wall
C6_Witness ==
    /\ game_over
    /\ OutOfGrid(segments[1].pos)

(***************************************************************************)
(* C7.  A tick that arrives while the game is Paused or in GameOver leaves *)
(* the segments, the buffered direction, the food cell, the score and both *)
(* flags unchanged.                                                        *)
(***************************************************************************)
C7_TickBlocked ==
    [][Tick /\ (paused \/ game_over)
           => /\ segments' = segments
              /\ next_direction' = next_direction
              /\ food' = food
              /\ score' = score
              /\ paused' = paused
              /\ game_over' = game_over]_vars

\* the game is over in a frame after the one whose tick ended it, so that
\* the ticks of this frame find it over
C7_Witness ==
    /\ game_over /\ running
    /\ ~moved

(***************************************************************************)
(* C8.  A direction key handled while Running calls turn(d): the buffered  *)
(* direction becomes d if the axis of d differs from the axis of the       *)
(* head's facing, whatever is buffered already, and stays as it is         *)
(* otherwise; the segments are unchanged.                                  *)
(***************************************************************************)
C8_Turn ==
    [][\A key \in DirectionKey :
           KeyDown(key) /\ Running
               => /\ next_direction' =
                         IF axis(DIRECTION_KEYS(key)) # axis(segments[1].direction)
                         THEN DIRECTION_KEYS(key)
                         ELSE next_direction
                  /\ segments' = segments]_vars

\* a turn is buffered and no tick has applied it yet
C8_Witness ==
    /\ Running
    /\ next_direction # segments[1].direction

(***************************************************************************)
(* C9.  The buffered direction is never the opposite of the head's facing, *)
(* and the new head of a tick is never on the segment behind the old head. *)
(***************************************************************************)
C9_NoReversal ==
    /\ [](next_direction # Opposite(segments[1].direction))
    /\ [][Tick /\ Running => segments'[1].pos # segments[2].pos]_vars

\* the snake, which starts facing RIGHT, has come round to face LEFT
C9_Witness ==
    /\ ~game_over
    /\ segments[1].direction = "LEFT"

(***************************************************************************)
(* C10.  As stated: the keys of a frame are applied before the frame's     *)
(* tick is evaluated, wherever they stand in the list.  The pause key then *)
(* decides the tick of its own frame: a frame that leaves the game Paused  *)
(* has not moved the snake.  (A key press in GameOver ends the frame, so a *)
(* frame that reaches its end has run no reset.)                           *)
(***************************************************************************)
C10_Original ==
    [][EndFrame /\ paused /\ ~game_over => ~moved]_vars

(***************************************************************************)
(* C10, amended.  The events of a frame are applied in list order.  A tick *)
(* moves the snake by the flags and the buffered direction as the events   *)
(* before it left them; a key handled outside GameOver, also one that      *)
(* follows the tick in the same frame, changes the flags and the buffered  *)
(* direction for later ticks and leaves the snake, the food and the score  *)
(* as they are.                                                            *)
(***************************************************************************)
C10_ListOrder ==
    [][/\ Tick => IF paused \/ game_over
                  THEN segments' = segments
                  ELSE segments'[1].pos = NewHead
       /\ KeyPress /\ ~game_over
              => /\ segments' = segments
                 /\ food' = food
                 /\ score' = score]_vars

\* a tick of this frame has moved the snake and a later pause key of the
\* same frame has paused the game
C10_Witness ==
    /\ moved
    /\ paused /\ ~game_over

(***************************************************************************)
(* C11.  In every reachable state the snake has at least 3 segments, and   *)
(* in every reachable state that is not GameOver the positions of its      *)
(* segments are pairwise distinct.                                         *)
(***************************************************************************)
C11_LengthAndDistinct ==
    /\ Len(segments) >= 3
    /\ ~game_over =>
           \A i, j \in 1..Len(segments) :
               i # j => segments[i].pos # segments[j].pos

\* a live snake of five segments
C11_Witness ==
    /\ ~game_over
    /\ Len(segments) = 5

(***************************************************************************)
(* C12.  In every reachable state that is not GameOver, the state right    *)
(* after a respawn included, every segment's position (x, y) satisfies     *)
(* 0 <= x < width and 0 <= y < height.                                     *)
(***************************************************************************)
C12_Original ==
    ~game_over => \A i \in 1..Len(segments) : ~OutOfGrid(segments[i].pos)

(***************************************************************************)
(* C13.  After every reset, at program start and after GameOver, the snake *)
(* has exactly 3 segments, all facing RIGHT, contiguous along the          *)
(* horizontal axis with the head rightmost; the buffered direction is      *)
(* RIGHT, the score is 0 and game_over is false.                           *)
(***************************************************************************)
Fresh ==
    /\ Len(segments) = 3
    /\ \A i \in 1..3 : segments[i].direction = "RIGHT"
    /\ \A i \in 2..3 :
           /\ segments[i].pos[1] = segments[i - 1].pos[1] - 1
           /\ segments[i].pos[2] = segments[i - 1].pos[2]
    /\ next_direction = "RIGHT"
    /\ score = 0
    /\ ~game_over

C13_Reset ==
    /\ Fresh
    /\ [][KeyPress /\ game_over => Fresh']_vars

\* a round has ended with a grown snake that had turned: the state a key
\* press resets
C13_Witness ==
    /\ game_over /\ running
    /\ score = 2
    /\ segments[1].direction # "RIGHT"

(***************************************************************************)
(* C14.  On a tick taken while Running with no eat and no collision, the   *)
(* segment positions after the tick are the new head followed by the old   *)
(* positions of all segments but the tail; food and score are unchanged.   *)
(***************************************************************************)
Positions(segs) == [i \in 1..Len(segs) |-> segs[i].pos]

C14_Move ==
    [][Tick /\ Running /\ NewHead # food /\ ~Collision
           => /\ Positions(segments') =
                     <<NewHead>> \o
                         SubSeq(Positions(segments), 1, Len(segments) - 1)
              /\ food' = food
              /\ score' = score]_vars

\* an ordinary tick of this frame has moved the snake downwards
C14_Witness ==
    /\ moved /\ Running /\ score = 0
    /\ segments[1].direction = "DOWN"

(***************************************************************************)
(* C15.  If on a tick taken while Running the new head is on the cell of   *)
(* the current tail, the game becomes GameOver; this happens only to a     *)
(* snake of at least 4 segments.                                           *)
(***************************************************************************)
C15_NoTailLeniency ==
    [][Tick /\ Running /\ NewHead = segments[Len(segments)].pos
           => /\ game_over'
              /\ Len(segments) >= 4]_vars

\* a snake of 4 segments has run into its own tail: the grown list of 5
\* has the head on the tail's cell
C15_Witness ==
    /\ game_over
    /\ Len(segments) = 5
    /\ segments[1].pos = segments[5].pos

(***************************************************************************)
(* C16.  In every reachable state every sprite name the draw routine looks *)
(* up is defined: the first is TAIL with the tail's direction, the last is *)
(* HEAD with the direction of the segment behind the head, and every name  *)
(* between is a pair of directions that are equal or perpendicular, never  *)
(* opposite.                                                               *)
(***************************************************************************)
C16_TagsDefined ==
    LET names == draw(segments)
        n == Len(segments)
    IN  /\ Len(names) = n
        /\ \A k \in 1..n : names[k] \in name_map
        /\ names[1] = <<"TAIL", segments[n].direction>>
        /\ names[n] = <<"HEAD", segments[2].direction>>
        /\ \A k \in 2..(n - 1) :
               /\ names[k][1] \in Direction
               /\ names[k][2] \in Direction
               /\ names[k][1] # Opposite(names[k][2])

\* a snake that has ended its round is drawn with a corner in its body
C16_Witness ==
    /\ game_over
    /\ \E k \in 2..(Len(segments) - 1) :
           /\ draw(segments)[k][1] \in Direction
           /\ axis(draw(segments)[k][1]) # axis(draw(segments)[k][2])

(***************************************************************************)
(* C17.  In every reachable state that is not GameOver the number of       *)
(* segments is score + 3, and in every GameOver state it is score + 4.     *)
(***************************************************************************)
C17_ScoreAndLength ==
    Len(segments) = score + (IF game_over THEN 4 ELSE 3)

\* a round that scored once has ended
C17_Witness ==
    /\ game_over
    /\ score = 1
    /\ Len(segments) = 5

(***************************************************************************)
(* C18.  In every reachable state, for every segment but the head, the     *)
(* position of the segment before it in the list is its own position plus  *)
(* the unit vector of its own direction.                                   *)
(***************************************************************************)
C18_Chain ==
    \A i \in 2..Len(segments) :
        /\ segments[i - 1].pos[1] =
               segments[i].pos[1] + vector(segments[i].direction)[1]
        /\ segments[i - 1].pos[2] =
               segments[i].pos[2] + vector(segments[i].direction)[2]

\* the body of a live snake has a corner
C18_Witness ==
    /\ ~game_over
    /\ segments[2].direction # segments[3].direction

(***************************************************************************)
(* C19.  A direction key handled while the game is Paused and not GameOver *)
(* leaves the buffered direction and every other part of the game state    *)
(* unchanged.                                                              *)
(***************************************************************************)
C19_PausedKeysIgnored ==
    [][\A key \in DirectionKey :
           KeyDown(key) /\ paused /\ ~game_over
               => /\ next_direction' = next_direction
                  /\ segments' = segments
                  /\ food' = food
                  /\ score' = score
                  /\ paused' = paused
                  /\ game_over' = game_over]_vars

\* the game is paused in mid-round with a turn buffered before the pause
C19_Witness ==
    /\ paused /\ ~game_over
    /\ next_direction # segments[1].direction

(***************************************************************************)
(* C20.  A round left alone ends.  The claim is about a program that keeps *)
(* running, so QUIT is left out; pygame's timer then posts UPDATE every    *)
(* 140 ms for ever, which is weak fairness of Tick.  The end of a frame    *)
(* changes only the history variable moved, which nothing here reads, so   *)
(* the frames are run together.                                            *)
(***************************************************************************)
LiveNext ==
    \/ \E key \in Keys : KeyDown(key)
    \/ Tick
    \/ OtherEvent

LiveSpec == Init /\ [][LiveNext]_vars /\ WF_vars(Tick)

Max(a, b) == IF a >= b THEN a ELSE b

\* Game.move_snake applied n times to a Running game with no key pressed
\* between: TRUE if every such run ends the game within the n ticks
RECURSIVE over_within(_, _, _, _)
over_within(segs, nd, f, n) ==
    /\ n > 0
    /\ LET grown == grow(segs, nd)
       IN  IF hit_self(grown) \/ ~contains(head(grown).pos)
           THEN TRUE
           ELSE IF head(grown).pos = f
           THEN LET free == random_pos(occupied(grown) \cup {f})
                IN  /\ free # {}
                    /\ \A g \in free : over_within(grown, nd, g, n - 1)
           ELSE over_within(shrink(grown), nd, f, n - 1)

\* the bound on the score has stopped the model: the next tick would eat
CapReached == Running /\ score = MaxScore /\ NewHead = food

(***************************************************************************)
(* C20.  If from some point on no key is pressed, the game ends up not     *)
(* Running for good (GameOver if it was Running when the keys stopped,     *)
(* unless the model's bound on the score was reached); and from every      *)
(* reachable Running state, max(width, height) ticks with no key pressed   *)
(* between them end the game.                                              *)
(***************************************************************************)
C20_Ends ==
    /\ <>[][~KeyPress]_vars => <>[](~Running \/ CapReached)
    /\ [](Running =>
              over_within(segments, next_direction, food, Max(Width, Height)))

\* a Running snake that has eaten faces the far wall from the first column
C20_Witness ==
    /\ Running
    /\ score = 1
    /\ segments[1].pos[1] = 0
    /\ next_direction = "RIGHT"

====
